---------------------------- MODULE Spec2Model ----------------------------
(***************************************************************************)
(* A model of src/delaunay.py: the point sampler with its decluster        *)
(* filter (generate_points), the gradient interpolation (calculate_color)  *)
(* and the module-level rendering script.                                  *)
(*                                                                         *)
(* Numbers.  Python floats are modelled as exact reals.  A distance        *)
(* sqrt(v) is represented by its square v: the source only compares        *)
(* distances and tests them for truth, and sqrt is strictly increasing on  *)
(* the integers v that occur, so every comparison has the same outcome.    *)
(* Python's None is the empty tuple, a present value v is <<v>>.           *)
(***************************************************************************)
EXTENDS Integers, Sequences, FiniteSets

VARIABLES
    \* generate_points: arguments, locals and position
    n_points, area, scale, decluster,
    points, sorted_points, i, pc,
    \* the random source: how many values have been drawn from it
    random_draws,
    \* calculate_color: arguments and returned color
    grad, val, color,
    \* the script: parsed options, globals, position, exit status, files written
    options, background_image, size, triangulation, trans_triangulation,
    centroid, int_centroid, colors, image, stage, exit_status, saved

genVars == <<n_points, area, scale, decluster, sorted_points, pc>>
colorVars == <<grad, val, color>>
runVars == <<options, background_image, size, triangulation, trans_triangulation,
             centroid, int_centroid, colors, image, stage, exit_status, saved>>
vars == <<genVars, points, i, random_draws, colorVars, runVars>>

None == <<>>
Some(v) == <<v>>

\* Bounds of the model
MaxPoints == 3
Areas == {<<2, 2>>, <<4, 1>>}
\* scale as a fraction <<numerator, denominator>>: the default 1 and the script's 1.25
Scales == {<<1, 1>>, <<5, 4>>}

\* What the variables of the parts that a specification does not run hold
IdleGen ==
    /\ n_points = 0 /\ area = None /\ scale = None /\ decluster = FALSE
    /\ sorted_points = <<>> /\ pc = "idle"
IdleColor == grad = None /\ val = None /\ color = None
IdleRun ==
    /\ options = None /\ background_image = None /\ size = None
    /\ triangulation = <<>> /\ trans_triangulation = <<>>
    /\ centroid = None /\ int_centroid = None /\ colors = <<>>
    /\ image = None /\ stage = "idle" /\ exit_status = None /\ saved = 0

(***************************************************************************)
(* Python arithmetic                                                       *)
(***************************************************************************)
\* int(a/b) for b > 0: truncation toward zero
TruncDiv(a, b) == IF a >= 0 THEN a \div b ELSE -((-a) \div b)

Min2(a, b) == IF a <= b THEN a ELSE b
Max2(a, b) == IF a >= b THEN a ELSE b

(***************************************************************************)
(* generate_points                                                         *)
(***************************************************************************)
cluster_fraction(dc) == IF dc THEN 2 ELSE 1
n_extra_points(n, dc) == cluster_fraction(dc) * n

\* int((1-scale)/2*extent) + random.randrange(int(extent*scale))
SampleCoords(extent, sc) ==
    LET lo == TruncDiv((sc[2] - sc[1]) * extent, 2 * sc[2])
        span == TruncDiv(extent * sc[1], sc[2])
    IN  {lo + r : r \in 0 .. (span - 1)}

\* (p[0]-q[0])**2+(p[1]-q[1])**2, the square of q_d
SqDist(p, q) == (p[1] - q[1]) * (p[1] - q[1]) + (p[2] - q[2]) * (p[2] - q[2])

\* Python truth of d: None and 0.0 are false
Truthy(d) == d # None /\ d[1] # 0

\* The inner loop "for q in points", from position j on, with d so far
RECURSIVE ScanNearest(_, _, _, _)
ScanNearest(pts, p, j, d) ==
    IF j > Len(pts) THEN d
    ELSE IF pts[j] = p THEN d
    ELSE LET q_d == SqDist(p, pts[j])
         IN  ScanNearest(pts, p, j + 1,
                         IF ~Truthy(d) \/ q_d < d[1] THEN Some(q_d) ELSE d)

NearestD(pts, p) == ScanNearest(pts, p, 1, None)

\* Mutant: the scan passes the entries of equal distance (a stable insertion)
RECURSIVE InsertPosAfterTies(_, _, _)
InsertPosAfterTies(sp, d, k) ==
    IF k > Len(sp) THEN k
    ELSE IF sp[k][1] <= d THEN InsertPosAfterTies(sp, d, k + 1)
    ELSE k

\* The while loop: the first position whose distance is not below d
RECURSIVE InsertPos(_, _, _)
InsertPos(sp, d, k) ==
    IF k > Len(sp) THEN k
    ELSE IF sp[k][1] < d THEN InsertPos(sp, d, k + 1)
    ELSE k

InsertAt(sp, k, e) == SubSeq(sp, 1, k - 1) \o <<e>> \o SubSeq(sp, k, Len(sp))

\* Lines 71-83; the while loop always inserts here, because d <= sp[-1][0]
InsertSorted(sp, d, p) ==
    IF sp = <<>> THEN Append(sp, <<d, p>>)
    ELSE IF d > sp[Len(sp)][1] THEN Append(sp, <<d, p>>)
    ELSE InsertAt(sp, InsertPos(sp, d, 1), <<d, p>>)

\* One pass of "for p in points": lines 60-83
RankOne(pts, sp, p) ==
    LET d == NearestD(pts, p)
    IN  IF Truthy(d) THEN InsertSorted(sp, d[1], p) ELSE sp

\* [p[1] for p in sorted_points]
Flatten(sp) == [k \in 1 .. Len(sp) |-> sp[k][2]]

\* Mutant: the second sentinel forgets the canvas width
SentinelsFixed(a) ==
    << <<-300, -10>>, <<10, -300>>, <<a[1] + 300, a[2] + 10>>, <<-100, a[2] + 300>> >>

Sentinels(a) ==
    << <<-300, -10>>, <<a[1] + 10, -300>>, <<a[1] + 300, a[2] + 10>>, <<-100, a[2] + 300>> >>

GenInit ==
    /\ n_points \in 1 .. MaxPoints
    /\ area \in Areas
    /\ scale \in Scales
    /\ decluster \in BOOLEAN
    /\ points = <<>>
    /\ sorted_points = <<>>
    /\ i = 0
    /\ pc = "sample"
    /\ random_draws = 0
    /\ IdleColor /\ IdleRun

\* Lines 52-53: one pass of the sampling loop, two draws from the random source
SamplePoint ==
    /\ pc = "sample"
    /\ i < n_extra_points(n_points, decluster)
    /\ \E x \in SampleCoords(area[1], scale), y \in SampleCoords(area[2], scale) :
          points' = Append(points, <<x, y>>)
    /\ random_draws' = random_draws + 2
    /\ IF i + 1 < n_extra_points(n_points, decluster)
       THEN i' = i + 1 /\ pc' = pc
       ELSE i' = 0 /\ pc' = IF decluster THEN "rank" ELSE "append"
    /\ UNCHANGED <<n_points, area, scale, decluster, sorted_points, colorVars, runVars>>

\* Lines 59-83: one pass of "for p in points"
RankPoint ==
    /\ pc = "rank"
    /\ i < Len(points)
    /\ sorted_points' = RankOne(points, sorted_points, points[i + 1])
    /\ IF i + 1 < Len(points)
       THEN i' = i + 1 /\ pc' = pc
       ELSE i' = 0 /\ pc' = "remove"
    /\ UNCHANGED <<n_points, area, scale, decluster, points, random_draws,
                   colorVars, runVars>>

\* Lines 85-86: one pass of the removal loop; del on an empty list raises IndexError
RemovePoint ==
    /\ pc = "remove"
    /\ i < n_extra_points(n_points, decluster) - n_points
    /\ IF sorted_points = <<>>
       THEN pc' = "raised" /\ UNCHANGED <<sorted_points, i>>
       ELSE /\ sorted_points' = Tail(sorted_points)
            /\ IF i + 1 < n_extra_points(n_points, decluster) - n_points
               THEN i' = i + 1 /\ pc' = pc
               ELSE i' = 0 /\ pc' = "append"
    /\ UNCHANGED <<n_points, area, scale, decluster, points, random_draws,
                   colorVars, runVars>>

\* Lines 88-95: flatten the ranking (decluster only), append the sentinels, return
AppendSentinels ==
    /\ pc = "append"
    /\ points' = (IF decluster THEN Flatten(sorted_points) ELSE points) \o Sentinels(area)
    /\ pc' = "returned"
    /\ UNCHANGED <<n_points, area, scale, decluster, sorted_points, i, random_draws,
                   colorVars, runVars>>

GenNext == SamplePoint \/ RankPoint \/ RemovePoint \/ AppendSentinels

Spec == GenInit /\ [][GenNext]_vars

(***************************************************************************)
(* calculate_color                                                         *)
(*                                                                         *)
(* A real number is a record: num/den when root is FALSE, sqrt(num/den)    *)
(* (num >= 0) when root is TRUE; den > 0.                                  *)
(***************************************************************************)
Ratio(n, d) == [num |-> n, den |-> d, root |-> FALSE]
SqrtOf(n, d) == [num |-> n, den |-> d, root |-> TRUE]

\* Lines 114-151
gradient ==
    [sunshine  |-> << <<255, 248, 9>>,  <<255, 65, 9>> >>,
     purples   |-> << <<255, 9, 204>>,  <<4, 137, 232>> >>,
     grass     |-> << <<255, 232, 38>>, <<88, 255, 38>> >>,
     valentine |-> << <<102, 0, 85>>,   <<255, 25, 216>> >>,
     sky       |-> << <<0, 177, 255>>,  <<9, 74, 102>> >>,
     ubuntu    |-> << <<119, 41, 83>>,  <<221, 72, 20>> >>,
     fedora    |-> << <<41, 65, 114>>,  <<60, 110, 180>> >>,
     debian    |-> << <<215, 10, 83>>,  <<10, 10, 10>> >>,
     opensuse  |-> << <<151, 208, 5>>,  <<34, 120, 8>> >>]

CeilDiv(a, b) == -((-a) \div b)

\* Whether lo + slope * sqrt(v.num/v.den) >= k, for 0 <= lo <= 255 and
\* 1 <= k <= 255, by comparing squares (slope^2 * v.num is never formed: it
\* exceeds TLC's 32-bit integers)
RootReaches(lo, slope, v, k) ==
    LET c == k - lo
    IN  IF slope > 0
        THEN c <= 0 \/ v.num >= CeilDiv(c * c * v.den, slope * slope)
        ELSE IF slope = 0 THEN c <= 0
        ELSE c <= 0 /\ v.num <= (c * c * v.den) \div (slope * slope)

\* min(max(int(lo + slope*v), 0), 255) for v = sqrt(num/den): with x the real
\* lo + slope*v, int(x) clamped is 0 when x < 1, and else the largest k <= 255
\* with k <= x
RootChannel(lo, slope, v) ==
    LET ks == {0} \cup {k \in 1 .. 255 : RootReaches(lo, slope, v, k)}
    IN  CHOOSE k \in ks : \A j \in ks : j <= k

\* Mutant: the thresholding keeps the lower bound only
ChannelNoCeiling(lo, hi, v) ==
    LET slope == hi - lo
    IN  IF v.root THEN RootChannel(lo, slope, v)
        ELSE Max2(TruncDiv(lo * v.den + slope * v.num, v.den), 0)

\* Lines 27-38 for one channel: the slope, int(lo + slope*val), the thresholding
Channel(lo, hi, v) ==
    LET slope == hi - lo
    IN  IF v.root THEN RootChannel(lo, slope, v)
        ELSE Min2(Max2(TruncDiv(lo * v.den + slope * v.num, v.den), 0), 255)

calculate_color(g, v) ==
    <<Channel(g[1][1], g[2][1], v), Channel(g[1][2], g[2][2], v),
      Channel(g[1][3], g[2][3], v)>>

\* Bounds of the scalars tried: val = num/den
MaxValNum == 9
MaxValDen == 4

ColorInit ==
    /\ grad \in {gradient[name] : name \in DOMAIN gradient}
    /\ val \in {Ratio(n, d) : n \in (-MaxValNum) .. MaxValNum, d \in 1 .. MaxValDen}
    /\ color = None
    /\ IdleGen /\ IdleRun
    /\ points = <<>> /\ i = 0 /\ random_draws = 0

\* One call calculate_color(grad, val)
Interpolate ==
    /\ color = None
    /\ color' = Some(calculate_color(grad, val))
    /\ UNCHANGED <<grad, val, genVars, points, i, random_draws, runVars>>

ColorNext == Interpolate

SpecColor == ColorInit /\ [][ColorNext]_vars

\* t is a/b truncated toward zero (b > 0)
IsTruncation(t, a, b) ==
    IF a >= 0 THEN t * b <= a /\ a < (t + 1) * b
    ELSE t * b >= a /\ a > (t - 1) * b

\* C4: calculate_color(grad, 0) is the start color, calculate_color(grad, 1)
\* is the end color, and for every val each channel is start + (end-start)*val
\* truncated toward zero and then clamped, an integer in [0, 255].
C4_Interpolation ==
    color # None =>
        /\ (val.num = 0 => color[1] = grad[1])
        /\ (val.num = val.den => color[1] = grad[2])
        /\ \A c \in 1 .. 3 :
              /\ color[1][c] \in 0 .. 255
              /\ \E t \in (-255 * (MaxValNum + 2)) .. (255 * (MaxValNum + 2)) :
                    /\ IsTruncation(t, grad[1][c] * val.den
                                        + (grad[2][c] - grad[1][c]) * val.num, val.den)
                    /\ color[1][c] = IF t < 0 THEN 0 ELSE IF t > 255 THEN 255 ELSE t

\* C4 witness: a val above 1 whose interpolation leaves [0, 255] and is clamped
C4_Witness ==
    /\ color # None /\ val.num > val.den
    /\ \E c \in 1 .. 3 :
          grad[1][c] * val.den + (grad[2][c] - grad[1][c]) * val.num > 255 * val.den

(***************************************************************************)
(* The script (lines 153-278)                                              *)
(***************************************************************************)
\* Line 112
aa_amount == 4

\* Bounds of the script's runs; generate_points is run on longer lists under Spec
RunPoints == {1}
MaxTriangles == 2
MaxDarken == 2

\* The image files that Image.open can read: size and pixels, pixels[x, y]
Images ==
    [one |-> [size |-> <<1, 1>>, pixels |-> [c \in {<<0, 0>>} |-> <<10, 20, 30>>]],
     two |-> [size |-> <<2, 1>>,
              pixels |-> [c \in {<<0, 0>>, <<1, 0>>} |->
                             IF c[1] = 0 THEN <<200, 100, 1>> ELSE <<0, 50, 250>>]]]

\* What parser.parse_args() can return (line 173).  With an image the options
\* it supersedes (gradient, width, height) are all absent or all present.
Options ==
    {o \in [gradient : {None, Some("sunshine"), Some("nosuch")},
            image : {None, Some("one"), Some("two"), Some("missing")},
            width : {None, Some(0), Some(1)},
            height : {None, Some(0), Some(2)},
            darken_amount : {None, Some(0), Some(1), Some(MaxDarken)},
            antialias : BOOLEAN,
            decluster : BOOLEAN,
            n_points : RunPoints] :
        o.image # None =>
            \/ o.gradient = None /\ o.width = None /\ o.height = None
            \/ o.gradient = Some("sunshine") /\ o.width = Some(1) /\ o.height = Some(2)}

\* Lines 59-83: the whole loop "for p in points", from position k on
RECURSIVE RankFrom(_, _, _)
RankFrom(pts, k, sp) ==
    IF k > Len(pts) THEN sp ELSE RankFrom(pts, k + 1, RankOne(pts, sp, pts[k]))

\* Lines 85-86: m times del sorted_points[0]; None when it raises IndexError
RECURSIVE RemoveFirst(_, _)
RemoveFirst(sp, m) ==
    IF m <= 0 THEN Some(sp)
    ELSE IF sp = <<>> THEN None
    ELSE RemoveFirst(Tail(sp), m - 1)

\* generate_points as one call, cands being the points that lines 52-53
\* sample: the list returned, or None when the call raises
generate_points(cands, n, a, dc) ==
    IF dc
    THEN LET kept == RemoveFirst(RankFrom(cands, 1, <<>>), n_extra_points(n, dc) - n)
         IN  IF kept = None THEN None ELSE Some(Flatten(kept[1]) \o Sentinels(a))
    ELSE Some(cands \o Sentinels(a))

\* Lines 14-19
cart_to_screen(pts, sz) ==
    IF pts # <<>> THEN [k \in 1 .. Len(pts) |-> <<pts[k][1], sz[2] - pts[k][2]>>]
    ELSE <<>>

\* geometry.delaunay_triangulation: some list of distinct triangles over the
\* points, possibly none; a triangle is three points at positions a < b < c of
\* the list, and the triangles are listed in the order of their positions
Triangulations(pts) ==
    LET m == Len(pts)
        corners == {t \in (1 .. m) \X (1 .. m) \X (1 .. m) : t[1] < t[2] /\ t[2] < t[3]}
        rank(t) == (t[1] * m + t[2]) * m + t[3]
        lists == UNION {{s \in [1 .. k -> corners] :
                            \A j \in 1 .. (k - 1) : rank(s[j]) < rank(s[j + 1])} :
                        k \in 0 .. MaxTriangles}
    IN  {[j \in 1 .. Len(s) |-> <<pts[s[j][1]], pts[s[j][2]], pts[s[j][3]]>>] : s \in lists}

\* geometry.tri_centroid: the mean of the vertices, here times three
tri_centroid(t) == <<t[1][1] + t[2][1] + t[3][1], t[1][2] + t[2][2] + t[3][2]>>

\* Mutant: the coordinate is not raised to 0
ClampCoordNoFloor(c3, extent) == TruncDiv(Min2(c3, 3 * (extent - 1)), 3)

\* int(min(max(c, 0), extent-1)) for the coordinate c = c3/3 (lines 235-236)
ClampCoord(c3, extent) == TruncDiv(Min2(Max2(c3, 0), 3 * (extent - 1)), 3)

\* Mutant: the channels are not clamped at 0
DarkenedUnclamped(c, d) == <<c[1] - d, c[2] - d, c[3] - d>>

\* Line 255
Darkened(c, d) == <<Max2(c[1] - d, 0), Max2(c[2] - d, 0), Max2(c[3] - d, 0)>>

\* Mutant: only the width is scaled back
DownsampledWidth(sz) == <<sz[1] \div aa_amount, sz[2]>>

\* The size passed to image.resize (line 273); Python 2's / on integers is the
\* floor division
Downsampled(sz) == <<sz[1] \div aa_amount, sz[2] \div aa_amount>>

\* Mutant: zero passes the test
NotNegative(x) == x = None \/ x[1] < 0

\* Python 2 orders None below every number: None <= 0
NotPositive(x) == x = None \/ x[1] <= 0

RunInit ==
    /\ options \in Options
    /\ background_image = None
    /\ size = None
    /\ points = <<>>
    /\ triangulation = <<>>
    /\ trans_triangulation = <<>>
    /\ centroid = None
    /\ int_centroid = None
    /\ colors = <<>>
    /\ image = None
    /\ i = 0
    /\ random_draws = 0
    /\ stage = "configure"
    /\ exit_status = None
    /\ saved = 0
    /\ IdleGen /\ IdleColor

\* sys.exit(code)
Exit(code) == stage' = "exited" /\ exit_status' = Some(code)
\* An exception nobody catches ends the interpreter with status 1
Raise == stage' = "raised" /\ exit_status' = Some(1)

\* Lines 179-190
CheckSource ==
    /\ stage = "configure"
    /\ IF options.gradient = None /\ options.image = None
       THEN Exit(64) /\ UNCHANGED background_image
       ELSE IF (options.gradient = None \/ options.gradient[1] \notin DOMAIN gradient)
                /\ options.image = None
       THEN Exit(64) /\ UNCHANGED background_image
       ELSE IF options.image # None
       THEN IF options.image[1] \in DOMAIN Images
            THEN /\ background_image' = Some(Images[options.image[1]])
                 /\ stage' = "size" /\ UNCHANGED exit_status
            ELSE Raise /\ UNCHANGED background_image
       ELSE stage' = "size" /\ UNCHANGED <<background_image, exit_status>>
    /\ UNCHANGED <<options, size, points, triangulation, trans_triangulation, centroid,
                   int_centroid, colors, image, i, random_draws, saved, genVars, colorVars>>

\* Lines 194-205
CanvasSize ==
    /\ stage = "size"
    /\ IF options.image # None
       THEN size' = background_image[1].size /\ stage' = "sample" /\ UNCHANGED exit_status
       ELSE IF NotPositive(options.width) \/ NotPositive(options.height)
       THEN Exit(64) /\ UNCHANGED size
       ELSE /\ size' = <<options.width[1], options.height[1]>>
            /\ stage' = "sample" /\ UNCHANGED exit_status
    /\ UNCHANGED <<options, background_image, points, triangulation, trans_triangulation,
                   centroid, int_centroid, colors, image, i, random_draws, saved,
                   genVars, colorVars>>

\* Lines 209-210: scale = 1.25, points = generate_points(...)
Sample ==
    /\ stage = "sample"
    /\ LET n == n_extra_points(options.n_points, options.decluster)
           xs == SampleCoords(size[1], <<5, 4>>)
           ys == SampleCoords(size[2], <<5, 4>>)
       IN  /\ random_draws' = random_draws + 2 * n
           /\ \E cands \in [1 .. n -> xs \X ys] :
                 LET got == generate_points(cands, options.n_points, size,
                                            options.decluster)
                 IN  IF got = None
                     THEN Raise /\ UNCHANGED points
                     ELSE /\ points' = got[1]
                          /\ stage' = "triangulate" /\ UNCHANGED exit_status
    /\ UNCHANGED <<options, background_image, size, triangulation, trans_triangulation,
                   centroid, int_centroid, colors, image, i, saved, genVars, colorVars>>

\* Lines 213-218
Triangulate ==
    /\ stage = "triangulate"
    /\ \E tr \in Triangulations(points) :
          /\ triangulation' = tr
          /\ IF tr = <<>> THEN Exit(1)
             ELSE stage' = "transform" /\ UNCHANGED exit_status
    /\ UNCHANGED <<options, background_image, size, points, trans_triangulation,
                   centroid, int_centroid, colors, image, i, random_draws, saved,
                   genVars, colorVars>>

\* Lines 221-223
Transform ==
    /\ stage = "transform"
    /\ trans_triangulation' =
          [k \in 1 .. Len(triangulation) |-> cart_to_screen(triangulation[k], size)]
    /\ stage' = "color"
    /\ UNCHANGED <<options, background_image, size, points, triangulation, centroid,
                   int_centroid, colors, image, i, random_draws, exit_status, saved,
                   genVars, colorVars>>

\* Lines 229-239: one pass of the image-mode loop; a pixel outside the image
\* raises IndexError
ColorFromImage ==
    /\ stage = "color" /\ options.image # None
    /\ i < Len(trans_triangulation)
    /\ LET c == tri_centroid(trans_triangulation[i + 1])
           at == <<ClampCoord(c[1], size[1]), ClampCoord(c[2], size[2])>>
       IN  /\ centroid' = Some(c)
           /\ int_centroid' = Some(at)
           /\ IF at \in DOMAIN background_image[1].pixels
              THEN /\ colors' = Append(colors, background_image[1].pixels[at])
                   /\ i' = i + 1
                   /\ UNCHANGED <<stage, exit_status>>
              ELSE Raise /\ UNCHANGED <<colors, i>>
    /\ UNCHANGED <<options, background_image, size, points, triangulation,
                   trans_triangulation, image, random_draws, saved, genVars, colorVars>>

\* Lines 243-248: one pass of the gradient-mode loop
ColorFromGradient ==
    /\ stage = "color" /\ options.image = None
    /\ i < Len(triangulation)
    /\ LET c == tri_centroid(triangulation[i + 1])
           frac == SqrtOf(c[1] * c[1] + c[2] * c[2],
                          9 * (size[1] * size[1] + size[2] * size[2]))
       IN  colors' = Append(colors, calculate_color(gradient[options.gradient[1]], frac))
    /\ i' = i + 1
    /\ UNCHANGED <<options, background_image, size, points, triangulation,
                   trans_triangulation, centroid, int_centroid, image, random_draws,
                   stage, exit_status, saved, genVars, colorVars>>

\* The end of either coloring loop
ColorDone ==
    /\ stage = "color"
    /\ i >= Len(triangulation)
    /\ stage' = "darken"
    /\ i' = 0
    /\ UNCHANGED <<options, background_image, size, points, triangulation,
                   trans_triangulation, centroid, int_centroid, colors, image,
                   random_draws, exit_status, saved, genVars, colorVars>>

\* Lines 251-256: one pass of the darkening loop, one draw from the random source
DarkenColor ==
    /\ stage = "darken"
    /\ Truthy(options.darken_amount)
    /\ i < Len(colors)
    /\ \E d \in 0 .. (options.darken_amount[1] - 1) :
          colors' = [colors EXCEPT ![i + 1] = Darkened(colors[i + 1], d)]
    /\ random_draws' = random_draws + 1
    /\ i' = i + 1
    /\ UNCHANGED <<options, background_image, size, points, triangulation,
                   trans_triangulation, centroid, int_centroid, image, stage,
                   exit_status, saved, genVars, colorVars>>

\* Line 251 when no darkening is asked for, or the end of the darkening loop
DarkenDone ==
    /\ stage = "darken"
    /\ ~Truthy(options.darken_amount) \/ i >= Len(colors)
    /\ stage' = "antialias"
    /\ i' = 0
    /\ UNCHANGED <<options, background_image, size, points, triangulation,
                   trans_triangulation, centroid, int_centroid, colors, image,
                   random_draws, exit_status, saved, genVars, colorVars>>

\* Lines 259-263
AntialiasSetup ==
    /\ stage = "antialias"
    /\ IF options.antialias
       THEN /\ size' = <<size[1] * aa_amount, size[2] * aa_amount>>
            /\ trans_triangulation' =
                  [k \in 1 .. Len(trans_triangulation) |->
                      [v \in 1 .. Len(trans_triangulation[k]) |->
                          <<trans_triangulation[k][v][1] * aa_amount,
                            trans_triangulation[k][v][2] * aa_amount>>]]
       ELSE UNCHANGED <<size, trans_triangulation>>
    /\ stage' = "paint"
    /\ UNCHANGED <<options, background_image, points, triangulation, centroid,
                   int_centroid, colors, image, i, random_draws, exit_status, saved,
                   genVars, colorVars>>

\* Lines 266-270: a canvas of the current size, every polygon drawn on it
Paint ==
    /\ stage = "paint"
    /\ image' = Some([size |-> size, polygons |-> Len(trans_triangulation)])
    /\ stage' = "resize"
    /\ UNCHANGED <<options, background_image, size, points, triangulation,
                   trans_triangulation, centroid, int_centroid, colors, i,
                   random_draws, exit_status, saved, genVars, colorVars>>

\* Lines 272-273
Resize ==
    /\ stage = "resize"
    /\ IF options.antialias
       THEN image' = Some([image[1] EXCEPT !.size = Downsampled(size)])
       ELSE UNCHANGED image
    /\ stage' = "save"
    /\ UNCHANGED <<options, background_image, size, points, triangulation,
                   trans_triangulation, centroid, int_centroid, colors, i,
                   random_draws, exit_status, saved, genVars, colorVars>>

\* Lines 276-278
Save ==
    /\ stage = "save"
    /\ saved' = saved + 1
    /\ Exit(0)
    /\ UNCHANGED <<options, background_image, size, points, triangulation,
                   trans_triangulation, centroid, int_centroid, colors, image, i,
                   random_draws, genVars, colorVars>>

RunNext ==
    \/ CheckSource \/ CanvasSize \/ Sample \/ Triangulate \/ Transform
    \/ ColorFromImage \/ ColorFromGradient \/ ColorDone
    \/ DarkenColor \/ DarkenDone \/ AntialiasSetup \/ Paint \/ Resize \/ Save

SpecRun == RunInit /\ [][RunNext]_vars

(***************************************************************************)
(* Claims about the script, checked under SpecRun                          *)
(***************************************************************************)
DarkenAmount == IF options.darken_amount = None THEN 0 ELSE options.darken_amount[1]
Sampled == 2 * (IF options.decluster THEN 2 ELSE 1) * options.n_points
AfterDarken ==
    stage \in {"antialias", "paint", "resize", "save"} \/ (stage = "exited" /\ saved = 1)

\* C5: darkening never produces a channel below 0; for an amount >= 1 each
\* color (r,g,b) becomes (max(r-d,0), max(g-d,0), max(b-d,0)) for one d of
\* [0, amount), drawn once per color; for an amount of 0 or none the colors are
\* unchanged and nothing is drawn.
C5_Darkening ==
    /\ [](\A k \in DOMAIN colors : \A c \in 1 .. 3 : colors[k][c] >= 0)
    /\ [](AfterDarken =>
            random_draws = Sampled + (IF DarkenAmount >= 1 THEN Len(colors) ELSE 0))
    /\ [][stage = "darken" =>
            IF DarkenAmount >= 1 /\ i' = i + 1
            THEN /\ random_draws' = random_draws + 1
                 /\ \E d \in 0 .. (DarkenAmount - 1) :
                       LET c == colors[i'] IN
                       colors' = [colors EXCEPT ![i'] =
                                     <<IF c[1] - d > 0 THEN c[1] - d ELSE 0,
                                       IF c[2] - d > 0 THEN c[2] - d ELSE 0,
                                       IF c[3] - d > 0 THEN c[3] - d ELSE 0>>]
            ELSE colors' = colors /\ random_draws' = random_draws]_vars

\* C5 witness: the pixel color (0,50,250) was darkened by 1, its first channel
\* kept at 0
C5_Witness ==
    /\ AfterDarken /\ DarkenAmount >= 2
    /\ \E k \in DOMAIN colors : colors[k] = <<0, 49, 249>>

AfterColor ==
    stage \in {"darken", "antialias", "paint", "resize", "save"}
        \/ (stage = "exited" /\ saved = 1)

\* C6: in image mode every sampled pixel coordinate is an integer pair with x
\* in [0, W-1] and y in [0, H-1], W x H the reference image's size; for the 1x1
\* image and no darkening every triangle's color is that pixel's color.
C6_SampleInsideImage ==
    /\ int_centroid # None =>
          /\ int_centroid[1][1] \in 0 .. (Images[options.image[1]].size[1] - 1)
          /\ int_centroid[1][2] \in 0 .. (Images[options.image[1]].size[2] - 1)
          /\ stage # "raised"
    /\ (options.image = Some("one") /\ DarkenAmount = 0) =>
          /\ \A k \in DOMAIN colors : colors[k] = <<10, 20, 30>>
          /\ AfterColor => Len(colors) = Len(triangulation)

\* C6 witness: a triangle with sentinel vertices whose screen-space centroid is
\* off the canvas on both axes has been sampled
C6_Witness ==
    /\ int_centroid # None /\ colors # <<>>
    /\ centroid[1][1] < 0
    /\ centroid[1][2] > 3 * (Images[options.image[1]].size[2] - 1)

StageRank(st) ==
    CASE st = "configure" -> 0
      [] st = "size" -> 1
      [] st = "sample" -> 2
      [] st = "triangulate" -> 3
      [] st = "transform" -> 4
      [] st = "color" -> 5
      [] st = "darken" -> 6
      [] st = "antialias" -> 7
      [] st = "paint" -> 8
      [] st = "resize" -> 9
      [] st = "save" -> 10
      [] OTHER -> 11

InvalidConfiguration ==
    \/ options.gradient = None /\ options.image = None
    \/ options.image = None /\ options.gradient[1] \notin DOMAIN gradient
    \/ /\ options.image = None
       /\ \/ options.width = None \/ options.height = None
          \/ options.width[1] <= 0 \/ options.height[1] <= 0

\* C7: the stages follow one another in the order Configure, Sample,
\* Decluster, Triangulate, Color, Rasterize, Downsample, Emit and none is
\* entered again; an invalid configuration ends the run with status 64 before
\* any point is sampled; an empty triangulation ends it with status 1 after one
\* sampling and before coloring; the file is written at most once, by a run
\* that passed every stage.
C7_LinearPipeline ==
    /\ [][StageRank(stage') >= StageRank(stage)]_vars
    /\ [](InvalidConfiguration =>
             /\ stage \in {"configure", "size", "exited"}
             /\ stage = "exited" => exit_status = Some(64)
             /\ points = <<>> /\ random_draws = 0 /\ saved = 0)
    /\ []((stage = "exited" /\ exit_status = Some(1)) =>
             /\ triangulation = <<>> /\ Len(points) >= 4
             /\ random_draws = Sampled
             /\ colors = <<>> /\ image = None /\ saved = 0)
    /\ [](saved <= 1)
    /\ [](saved = 1 =>
             /\ stage = "exited" /\ exit_status = Some(0)
             /\ ~InvalidConfiguration
             /\ triangulation # <<>> /\ Len(colors) = Len(triangulation)
             /\ image # None /\ image[1].polygons = Len(triangulation))
    /\ [](stage \in {"exited", "raised"} => ~ENABLED RunNext)

\* C7 witness: a run went through every stage, the downsampling included, and
\* wrote its file
C7_Witness == saved = 1 /\ options.antialias /\ options.decluster

Requested ==
    IF options.image # None THEN Images[options.image[1]].size
    ELSE <<options.width[1], options.height[1]>>

\* C8: the emitted image has the requested width and height, or the reference
\* image's own when an image is given; with antialias the canvas and every
\* polygon vertex are scaled by 4 before painting and the painted canvas is
\* resized back to the original size.
C8_OutputSize ==
    /\ (stage = "save" \/ saved = 1) => image[1].size = Requested
    /\ stage = "resize" =>
          IF options.antialias
          THEN /\ image[1].size = <<4 * Requested[1], 4 * Requested[2]>>
               /\ \A k \in DOMAIN triangulation : \A v \in 1 .. 3 :
                     trans_triangulation[k][v] =
                        <<4 * triangulation[k][v][1],
                          4 * (Requested[2] - triangulation[k][v][2])>>
          ELSE image[1].size = Requested

\* C8 witness: an antialiased image was written whose size is the reference
\* image's, not the requested 1 x 2
C8_Witness ==
    /\ saved = 1 /\ options.antialias
    /\ options.image = Some("two") /\ options.width = Some(1)

(***************************************************************************)
(* Claims about generate_points, checked under Spec                        *)
(***************************************************************************)
\* How often v occurs in s
Count(s, v) == Cardinality({k \in DOMAIN s : s[k] = v})

\* C1: generate_points returns exactly n_points + 4 points, with decluster
\* disabled and with decluster enabled.
C1_ReturnsNPlus4 == pc = "returned" => Len(points) = n_points + 4

\* The squared distance from candidate k to the nearest OTHER candidate of the
\* whole list (another position holding the same coordinates counts, at 0)
NearestOther(pts, k) ==
    LET ds == {SqDist(pts[k], pts[j]) : j \in DOMAIN pts \ {k}}
    IN  CHOOSE d \in ds : \A e \in ds : d <= e

IsKept(v) == Count(Flatten(sorted_points), v) > 0
IsDiscarded(v) == Count(points, v) > Count(Flatten(sorted_points), v)

\* C2: once the removals are done, every kept candidate has a nearest-neighbor
\* distance (to any other candidate of the whole list) at least that of every
\* discarded candidate.
C2_KeptAreFarthest ==
    (pc = "append" /\ decluster) =>
        \A a, b \in DOMAIN points :
            (IsKept(points[a]) /\ IsDiscarded(points[b]))
                => NearestOther(points, a) >= NearestOther(points, b)

OutsideCanvas(p, a) == ~(0 <= p[1] /\ p[1] < a[1] /\ 0 <= p[2] /\ p[2] < a[2])

\* C3: the returned list ends with the four sentinel points (-300,-10),
\* (W+10,-300), (W+300,H+10), (-100,H+300), and each lies outside [0,W) x [0,H).
C3_SentinelsLast ==
    pc = "returned" =>
        /\ Len(points) >= 4
        /\ SubSeq(points, Len(points) - 3, Len(points)) =
               << <<-300, -10>>, <<area[1] + 10, -300>>,
                  <<area[1] + 300, area[2] + 10>>, <<-100, area[2] + 300>> >>
        /\ \A k \in (Len(points) - 3) .. Len(points) : OutsideCanvas(points[k], area)

\* C3 witness: a declustered list that kept sampled points is returned
C3_Witness == pc = "returned" /\ decluster /\ Len(points) > 4

SortedAscending(sp) == \A j \in 1 .. (Len(sp) - 1) : sp[j][1] <= sp[j + 1][1]

\* sp with e put at position k
WithEntryAt(sp, k, e) ==
    [j \in 1 .. (Len(sp) + 1) |->
        IF j < k THEN sp[j] ELSE IF j = k THEN e ELSE sp[j - 1]]

Inserted == pc = "rank" /\ Len(sorted_points') = Len(sorted_points) + 1

\* C9 as claimed: the ranking is sorted ascending after every insertion, and an
\* entry is inserted after every earlier entry of the same distance (stable).
C9_StableInsertion ==
    /\ [](SortedAscending(sorted_points))
    /\ [][Inserted =>
            \E k \in 1 .. Len(sorted_points') :
                /\ sorted_points' = WithEntryAt(sorted_points, k, sorted_points'[k])
                /\ \A j \in 1 .. Len(sorted_points) :
                      IF j < k THEN sorted_points[j][1] <= sorted_points'[k][1]
                               ELSE sorted_points[j][1] > sorted_points'[k][1]]_vars

\* C9 as amended: the ranking is sorted ascending after every insertion, and an
\* entry is inserted before every earlier entry of the same distance, so that
\* tied candidates appear in reverse processing order.
C9_ReverseInsertion ==
    /\ [](SortedAscending(sorted_points))
    /\ [][Inserted =>
            \E k \in 1 .. Len(sorted_points') :
                /\ sorted_points' = WithEntryAt(sorted_points, k, sorted_points'[k])
                /\ \A j \in 1 .. Len(sorted_points) :
                      IF j < k THEN sorted_points[j][1] < sorted_points'[k][1]
                               ELSE sorted_points[j][1] >= sorted_points'[k][1]]_vars

\* C9 witness: two different candidates of equal distance are in the ranking
C9_Witness ==
    \E j \in 1 .. (Len(sorted_points) - 1) :
        /\ sorted_points[j][1] = sorted_points[j + 1][1]
        /\ sorted_points[j][2] # sorted_points[j + 1][2]

\* C10: every candidate is entered into the ranking, so no removal is applied
\* to an empty ranking and generate_points does not raise.
C10_AllRankedNoRaise ==
    /\ pc # "raised"
    /\ (pc = "remove" /\ i = 0) => Len(sorted_points) = Len(points)

=============================================================================
